---------------------------- MODULE Spec2Model ----------------------------
(***************************************************************************)
(* Model of the MQTT telemetry collector (app/services/mqtt_service.py)    *)
(* and of the persistence gateway it uses (app/services/db.py).            *)
(*                                                                         *)
(* The collector is a singleton with a run flag and a background loop      *)
(* thread; the transport client's network thread delivers messages to      *)
(* on_message, which resolves each numeric field against the channel       *)
(* table and inserts rows in measurement (and in dev).                     *)
(***************************************************************************)
EXTENDS Integers, Sequences, FiniteSets, TLC

(***************************************************************************)
(* Bounds of the model and constants of the program                        *)
(***************************************************************************)
\* messages delivered in one behaviour
MaxMsgs == 2
\* start()/stop() calls made in one behaviour
MaxCalls == 3
\* failed broker connects in one behaviour
MaxConnFails == 2
\* connect_db_with_retry(retries=5)
Retries == 5

(***************************************************************************)
(* JSON values.  A value is a record [t, v, s]: t is the JSON/Python type, *)
(* v its number (the number itself for "int", the number in tenths for     *)
(* "float", 0/1 for "bool", 0 otherwise) and s its text (for "str").       *)
(* A float column value is kept in tenths.                                 *)
(***************************************************************************)
I(n) == [t |-> "int", v |-> n, s |-> ""]
F(tenths) == [t |-> "float", v |-> tenths, s |-> ""]
B(b) == [t |-> "bool", v |-> b, s |-> ""]
S(str) == [t |-> "str", v |-> 0, s |-> str]
Null == [t |-> "null", v |-> 0, s |-> ""]
\* what dict.get returns for a key that is absent and has no default
None == [t |-> "none", v |-> 0, s |-> ""]
\* datetime.now().isoformat()
NowTs == [t |-> "now", v |-> 0, s |-> ""]

\* bool(value): Python truthiness, as used by `payload.get("timestamp") or ...`
Truthy(val) ==
  CASE val.t = "int" -> val.v # 0
    [] val.t = "float" -> val.v # 0
    [] val.t = "bool" -> val.v = 1
    [] val.t = "str" -> val.s # ""
    [] OTHER -> FALSE

\* isinstance(value, (int, float)): bool is a subclass of int
IsNumeric(val) == val.t \in {"int", "float", "bool"}

\* float(value) of a numeric value, in tenths
ToFloat(val) == IF val.t = "float" THEN val.v ELSE 10 * val.v

\* the strings of the model that int() parses, and what they parse to
IntStrings == {"2"}

\* int(x) raises TypeError on None and ValueError on a non-numeric string
IntRaises(val) ==
  \/ val.t \in {"null", "none"}
  \/ val.t = "str" /\ val.s \notin IntStrings

\* int(x): truncation toward zero for a float, parse for a numeric string
IntOf(val) ==
  CASE val.t = "float" -> IF val.v >= 0 THEN val.v \div 10 ELSE -((-val.v) \div 10)
    [] val.t = "str" -> IF val.s = "2" THEN 2 ELSE 0
    [] OTHER -> val.v

(***************************************************************************)
(* Payloads.  kind "nonjson": bytes that json.loads rejects; "array": JSON *)
(* that is not an object; "object": the items of the object, in order.     *)
(***************************************************************************)
KV(k, val) == [k |-> k, val |-> val]
Obj(items) == [kind |-> "object", items |-> items]
NonJson == [kind |-> "nonjson", items |-> <<>>]
JsonArray == [kind |-> "array", items |-> <<>>]

T1 == S("2024-06-01T00:00:00")

\* temp and rpm resolve for device 1 in TableA, temp and humid in TableB
PayloadThree ==
  Obj(<<KV("device", I(1)), KV("temp", I(5)), KV("humid", I(3)),
        KV("rpm", I(-5)), KV("timestamp", T1)>>)
\* no device, no timestamp; a reserved key, a boolean and a string
PayloadMixed ==
  Obj(<<KV("humid", F(425)), KV("machine", I(3)), KV("rpm", B(1)),
        KV("note", S("abc")), KV("temp", I(0))>>)
\* the device as a numeric string, an empty timestamp
PayloadStrDevice ==
  Obj(<<KV("device", S("2")), KV("timestamp", S("")), KV("temp", F(-15))>>)
\* a device that int() rejects
PayloadBadDevice == Obj(<<KV("device", S("abc")), KV("temp", I(5))>>)

Payloads ==
  {PayloadThree, PayloadMixed, PayloadStrDevice, PayloadBadDevice, NonJson, JsonArray}

\* the keys on_message passes over (line 81)
ReservedKeys == {"factory_id", "gateway_id", "device", "area_id", "machine", "timestamp"}

\* payload.get(key, default)
Get(items, key, default) ==
  IF \E i \in 1..Len(items) : items[i].k = key
  THEN items[CHOOSE i \in 1..Len(items) : items[i].k = key].val
  ELSE default

(***************************************************************************)
(* The store: channel(device_id, channel_name, channel_id) is read,        *)
(* measurement and dev are inserted into.                                  *)
(***************************************************************************)
Ch(d, n, c) == [device_id |-> d, channel_name |-> n, channel_id |-> c]
TableA == {Ch(1, "temp", 7), Ch(1, "rpm", 8), Ch(0, "rpm", 4), Ch(0, "machine", 9), Ch(2, "temp", 5)}
TableB == {Ch(1, "temp", 7), Ch(1, "humid", 6), Ch(0, "temp", 3)}
ChannelTables == {TableA, TableB}

\* SELECT channel_id FROM channel WHERE device_id = %s AND channel_name = %s
SelectChannel(table, device_id, key) ==
  {r \in table : r.device_id = device_id /\ r.channel_name = key}

Row(channel_id, value, quality, ts) ==
  [channel_id |-> channel_id, value |-> value, quality |-> quality, ts |-> ts]

(***************************************************************************)
(* State                                                                   *)
(***************************************************************************)
VARIABLES
  running,      \* MqttService._running
  thread,       \* MqttService._thread: 0 for None, else the thread's number
  loop,         \* per thread object: where its _loop is
  sock,         \* transport client: "none" | "connected" (to the broker)
  netloop,      \* transport client: its network thread runs (loop_start .. loop_stop)
  connack,      \* transport client: a CONNACK waits to be handled by the network thread
  subscribed,   \* transport client: subscribed to the topic in this session
  connection,   \* PostgresDB.connection is not None
  opened,       \* number of database connections opened (close() is never called)
  unclosed,     \* number of database connections opened and not closed
  channel,      \* table channel
  measurement,  \* table measurement: the rows, in insertion order
  dev,          \* table dev: the rows, in insertion order
  m,            \* the frame of on_message on the network thread
  g,            \* history of the message being handled
  hist,         \* history: one record per message handled to its end
  msgs,         \* history: number of messages delivered
  ctl,          \* per caller: where it is in start() / stop()
  ret,          \* per caller: the outcome of its last call
  log,          \* history: the start()/stop() calls made, in call order
  pending,      \* history: the loop threads that have not polled since a stop()
  spawned,      \* history: number of loop threads started
  transitions,  \* history: number of times _running went from False to True
  connFails     \* history: number of failed broker connects

client == <<sock, netloop, connack, subscribed>>
db == <<connection, opened, unclosed, channel, measurement, dev>>
message == <<m, g, hist, msgs>>
lifecycle == <<running, thread, loop>>
callers == <<ctl, ret, log, pending, spawned, transitions, connFails>>
vars == <<lifecycle, client, db, message, callers>>

Callers == {1, 2}
Threads == 1..MaxCalls

IdleFrame ==
  [pc |-> "idle", payload |-> NonJson, device_id |-> 0, timestamp |-> None,
   idx |-> 0, channel_id |-> 0, attempt |-> 0]
NoHistory ==
  [start |-> 0, looked |-> <<>>, written |-> <<>>, attempts |-> 0, fails |-> 0,
   failed |-> "none", running0 |-> FALSE, stopped |-> FALSE]

\* MqttService.__init__ and PostgresDB.__init__; the tables are the store's
Init ==
  /\ running = FALSE
  /\ thread = 0
  /\ loop = [t \in Threads |-> "none"]
  /\ sock = "none"
  /\ netloop = FALSE
  /\ connack = FALSE
  /\ subscribed = FALSE
  /\ connection = FALSE
  /\ opened = 0
  /\ unclosed = 0
  /\ channel \in ChannelTables
  /\ measurement = <<>>
  /\ dev = <<>>
  /\ m = IdleFrame
  /\ g = NoHistory
  /\ hist = <<>>
  /\ msgs = 0
  /\ ctl = [c \in Callers |-> "idle"]
  /\ ret = [c \in Callers |-> "none"]
  /\ log = <<>>
  /\ pending = {}
  /\ spawned = 0
  /\ transitions = 0
  /\ connFails = 0

(***************************************************************************)
(* on_message, on the transport client's network thread                    *)
(***************************************************************************)
\* the message is over: on_message returns to the network thread
Return(outcome, failed, meas) ==
  /\ m' = [m EXCEPT !.pc = "idle"]
  /\ hist' = Append(hist, [payload |-> m.payload, outcome |-> outcome,
                           start |-> g.start, end |-> Len(meas),
                           looked |-> g.looked, written |-> g.written,
                           attempts |-> g.attempts, fails |-> g.fails,
                           failed |-> failed, running0 |-> g.running0,
                           stopped |-> g.stopped, at |-> m.idx])
  /\ g' = g

\* `except Exception as e: print(...)`: the handler returns normally
Caught(failed, meas) == Return("caught", failed, meas)

\* the network thread calls on_message(client, userdata, msg)
Deliver(p) ==
  /\ m.pc = "idle"
  /\ netloop /\ sock = "connected" /\ subscribed
  /\ msgs < MaxMsgs
  /\ m' = [IdleFrame EXCEPT !.pc = "decode", !.payload = p]
  /\ g' = [NoHistory EXCEPT !.start = Len(measurement), !.running0 = running]
  /\ msgs' = msgs + 1
  /\ UNCHANGED <<hist, lifecycle, client, db, callers>>

\* a decoder that accepts every payload
DecodeRaisesNever(p) == FALSE

\* json.loads(msg.payload.decode()) raises on this payload
DecodeRaises(p) == p.kind = "nonjson"

\* payload.get raises AttributeError on a JSON value that is no object;
\* int(payload.get("device", 0)) raises on a device that is no number
ExtractRaises(p) ==
  \/ p.kind = "array"
  \/ p.kind = "object" /\ IntRaises(Get(p.items, "device", I(0)))

\* payload.get("timestamp") or datetime.now().isoformat()
TimestampOf(items) ==
  IF Truthy(Get(items, "timestamp", None)) THEN Get(items, "timestamp", None) ELSE NowTs

\* lines 70-74: decode, device_id, timestamp
Decode ==
  /\ m.pc = "decode"
  /\ IF DecodeRaises(m.payload)
     THEN Caught("decode", measurement)
     ELSE IF ExtractRaises(m.payload)
     THEN Caught("extract", measurement)
     ELSE /\ m' = [m EXCEPT !.pc = "retry",
                            !.device_id = IntOf(Get(m.payload.items, "device", I(0))),
                            !.timestamp = TimestampOf(m.payload.items),
                            !.attempt = 0]
          /\ UNCHANGED <<g, hist>>
  /\ UNCHANGED <<msgs, lifecycle, client, db, callers>>

(***************************************************************************)
(* connect_db_with_retry(retries=5, delay=2), called by on_message         *)
(***************************************************************************)
\* a retry loop that does not return after db.connect() succeeded
RetryAfterOkContinue(mm) == [mm EXCEPT !.attempt = @ + 1]

\* `return True` after db.connect(): on_message goes on to its first field
RetryAfterOk(mm) == [mm EXCEPT !.pc = "fields", !.idx = 1]

\* `except ...: time.sleep(delay)`: the next attempt of range(retries)
RetryAfterFail(mm) == [mm EXCEPT !.attempt = @ + 1]

\* db.connect() succeeds: PostgresDB.connect stores a new connection
DbConnectOk ==
  /\ m.pc = "retry"
  /\ m.attempt < Retries
  /\ connection' = TRUE
  /\ opened' = opened + 1
  /\ unclosed' = unclosed + 1
  /\ g' = [g EXCEPT !.attempts = @ + 1]
  /\ m' = RetryAfterOk(m)
  /\ UNCHANGED <<channel, measurement, dev, hist, msgs, lifecycle, client, callers>>

\* db.py lines 28-34 replace self.connection and self.cursor without close():
\* the runtime finalises a connection that nothing references any more, at a
\* time of its choosing, and that closes it
Collect ==
  /\ connection
  /\ unclosed > 1
  /\ unclosed' = unclosed - 1
  /\ UNCHANGED <<connection, opened, channel, measurement, dev, message, lifecycle, client, callers>>

\* db.connect() raises: PostgresDB.connect re-raises and stores nothing
DbConnectFail ==
  /\ m.pc = "retry"
  /\ m.attempt < Retries
  /\ g' = [g EXCEPT !.attempts = @ + 1, !.fails = @ + 1]
  /\ m' = RetryAfterFail(m)
  /\ UNCHANGED <<db, hist, msgs, lifecycle, client, callers>>

\* an on_message that ignores the False of connect_db_with_retry
RetryExhaustedProceeds ==
  /\ m.pc = "retry"
  /\ m.attempt >= Retries
  /\ m' = [m EXCEPT !.pc = "fields", !.idx = 1]
  /\ UNCHANGED <<g, hist, msgs, lifecycle, client, db, callers>>

\* range(retries) is used up: `return False`, and on_message skips the message
RetryExhausted ==
  /\ m.pc = "retry"
  /\ m.attempt >= Retries
  /\ Return("skipped", "connect", measurement)
  /\ UNCHANGED <<msgs, lifecycle, client, db, callers>>

(***************************************************************************)
(* on_message: the loop over payload.items()                               *)
(***************************************************************************)
\* lines 81-84: a reserved key or a value that is no int/float is passed over
Skips(kv) == kv.k \in ReservedKeys \/ ~IsNumeric(kv.val)

\* `continue`: the next item
NextField(mm) == [mm EXCEPT !.pc = "fields", !.idx = @ + 1]

\* a `break` where the code has `continue`
NoChannelBreak(mm) == [mm EXCEPT !.pc = "fields", !.idx = Len(mm.payload.items) + 1]

\* lines 91-93: no row for (device_id, key)
NoChannel(mm) == NextField(mm)

\* line 97, commented out in the source: the quality by the value's sign
QualityBySign(val) == IF ToFloat(val) > 0 THEN "Good" ELSE "Uncertain"

\* line 98
Quality(val) == "Good"

\* an insert that takes the device id for the channel id
InsertedRowDeviceAsChannel(mm) ==
  Row(mm.device_id, ToFloat(mm.payload.items[mm.idx].val),
      Quality(mm.payload.items[mm.idx].val), mm.timestamp)

\* the parameters of both INSERT statements
InsertedRow(mm) ==
  Row(mm.channel_id, ToFloat(mm.payload.items[mm.idx].val),
      Quality(mm.payload.items[mm.idx].val), mm.timestamp)

\* an insert that leaves out a row the table already holds
InsertedDedup(table, row) ==
  IF \E k \in 1..Len(table) : table[k] = row THEN table ELSE Append(table, row)

\* INSERT INTO <table> ... and commit
Inserted(table, row) == Append(table, row)

\* the loop is over: on_message returns
FieldsDone ==
  /\ m.pc = "fields"
  /\ m.idx > Len(m.payload.items)
  /\ Return("ok", "none", measurement)
  /\ UNCHANGED <<msgs, lifecycle, client, db, callers>>

FieldSkip ==
  /\ m.pc = "fields"
  /\ m.idx <= Len(m.payload.items)
  /\ Skips(m.payload.items[m.idx])
  /\ m' = NextField(m)
  /\ UNCHANGED <<g, hist, msgs, lifecycle, client, db, callers>>

\* db.execute_query(SELECT ...) returns; rows[0] is any row that matches
FieldLookup ==
  /\ m.pc = "fields"
  /\ m.idx <= Len(m.payload.items)
  /\ ~Skips(m.payload.items[m.idx])
  /\ connection
  /\ LET key == m.payload.items[m.idx].k
         rows == SelectChannel(channel, m.device_id, key)
     IN /\ g' = [g EXCEPT !.looked = Append(@, key)]
        /\ IF rows = {}
           THEN m' = NoChannel(m)
           ELSE \E r \in rows :
                  m' = [m EXCEPT !.pc = "insert_measurement", !.channel_id = r.channel_id]
  /\ UNCHANGED <<hist, msgs, lifecycle, client, db, callers>>

\* db.execute_query raises (PostgresDB.execute_query re-raises)
FieldLookupFail ==
  /\ m.pc = "fields"
  /\ m.idx <= Len(m.payload.items)
  /\ ~Skips(m.payload.items[m.idx])
  /\ Caught("select", measurement)
  /\ UNCHANGED <<msgs, lifecycle, client, db, callers>>

\* lines 99-105: INSERT INTO measurement, committed
InsertMeasurement ==
  /\ m.pc = "insert_measurement"
  /\ connection
  /\ measurement' = Inserted(measurement, InsertedRow(m))
  /\ g' = [g EXCEPT !.written = Append(@, m.payload.items[m.idx].k)]
  /\ m' = [m EXCEPT !.pc = "insert_dev"]
  /\ UNCHANGED <<connection, opened, unclosed, channel, dev, hist, msgs, lifecycle, client, callers>>

\* a failing INSERT that takes the rows of the earlier fields back with it
InsertMeasurementFailUndoesAll ==
  /\ m.pc = "insert_measurement"
  /\ Caught("insert_measurement", SubSeq(measurement, 1, g.start))
  /\ measurement' = SubSeq(measurement, 1, g.start)
  /\ UNCHANGED <<msgs, lifecycle, client, connection, opened, unclosed, channel, dev, callers>>

\* the INSERT raises: execute_non_query rolls back and re-raises
InsertMeasurementFail ==
  /\ m.pc = "insert_measurement"
  /\ Caught("insert_measurement", measurement)
  /\ UNCHANGED <<msgs, lifecycle, client, db, callers>>

\* lines 106-112: INSERT INTO dev, committed
InsertDev ==
  /\ m.pc = "insert_dev"
  /\ connection
  /\ dev' = Inserted(dev, InsertedRow(m))
  /\ m' = NextField(m)
  /\ UNCHANGED <<connection, opened, unclosed, channel, measurement, g, hist, msgs, lifecycle, client, callers>>

\* a failing INSERT after which the handler stops the collector
InsertDevFailStops ==
  /\ m.pc = "insert_dev"
  /\ Caught("insert_dev", measurement)
  /\ running' = FALSE
  /\ UNCHANGED <<msgs, thread, loop, client, db, callers>>

\* the INSERT raises: execute_non_query rolls back and re-raises
InsertDevFail ==
  /\ m.pc = "insert_dev"
  /\ Caught("insert_dev", measurement)
  /\ UNCHANGED <<msgs, lifecycle, client, db, callers>>

on_message ==
  \/ Decode
  \/ DbConnectOk
  \/ DbConnectFail
  \/ RetryExhausted
  \/ FieldsDone
  \/ FieldSkip
  \/ FieldLookup
  \/ FieldLookupFail
  \/ InsertMeasurement
  \/ InsertMeasurementFail
  \/ InsertDev
  \/ InsertDevFail

(***************************************************************************)
(* start(), stop(), is_running(): called from any thread of the host       *)
(***************************************************************************)
is_running == running

\* the loop threads that were started and have not returned from _loop
Alive == {t \in Threads : loop[t] \notin {"none", "new", "dead"}}

\* number of Thread objects created so far
Created == Cardinality({t \in Threads : loop[t] # "none"})

\* a start() without the check of line 150
Start150Unchecked(c) ==
  /\ ctl[c] = "idle"
  /\ Len(log) < MaxCalls
  /\ log' = Append(log, "start")
  /\ ctl' = [ctl EXCEPT ![c] = "start_153"]
  /\ ret' = [ret EXCEPT ![c] = "none"]
  /\ UNCHANGED <<pending, spawned, transitions, connFails, lifecycle, client, db, message>>

\* line 150: `if self._running:` ... return
Start150(c) ==
  /\ ctl[c] = "idle"
  /\ Len(log) < MaxCalls
  /\ log' = Append(log, "start")
  /\ IF running
     THEN /\ ctl' = ctl
          /\ ret' = [ret EXCEPT ![c] = "already"]
     ELSE /\ ctl' = [ctl EXCEPT ![c] = "start_153"]
          /\ ret' = [ret EXCEPT ![c] = "none"]
  /\ UNCHANGED <<pending, spawned, transitions, connFails, lifecycle, client, db, message>>

\* line 153: self._running = True
Start153(c) ==
  /\ ctl[c] = "start_153"
  /\ running' = TRUE
  /\ transitions' = IF running THEN transitions ELSE transitions + 1
  /\ ctl' = [ctl EXCEPT ![c] = "start_154"]
  /\ UNCHANGED <<thread, loop, ret, log, pending, spawned, connFails, client, db, message>>

\* line 154: self._thread = threading.Thread(target=self._loop, daemon=True)
Start154(c) ==
  /\ ctl[c] = "start_154"
  /\ thread' = Created + 1
  /\ loop' = [loop EXCEPT ![Created + 1] = "new"]
  /\ ctl' = [ctl EXCEPT ![c] = "start_155"]
  /\ UNCHANGED <<running, ret, log, pending, spawned, transitions, connFails, client, db, message>>

\* line 155: self._thread.start(); a Thread that was started raises RuntimeError
Start155(c) ==
  /\ ctl[c] = "start_155"
  /\ ctl' = [ctl EXCEPT ![c] = "idle"]
  /\ IF loop[thread] = "new"
     THEN /\ loop' = [loop EXCEPT ![thread] = "while_outer"]
          /\ spawned' = spawned + 1
          /\ ret' = [ret EXCEPT ![c] = "started"]
     ELSE /\ ret' = [ret EXCEPT ![c] = "raised"]
          /\ UNCHANGED <<loop, spawned>>
  /\ UNCHANGED <<running, thread, log, pending, transitions, connFails, client, db, message>>

\* line 160: `if not self._running:` ... return
Stop160(c) ==
  /\ ctl[c] = "idle"
  /\ Len(log) < MaxCalls
  /\ log' = Append(log, "stop")
  /\ IF ~running
     THEN /\ ctl' = ctl
          /\ ret' = [ret EXCEPT ![c] = "not_running"]
     ELSE /\ ctl' = [ctl EXCEPT ![c] = "stop_163"]
          /\ ret' = [ret EXCEPT ![c] = "none"]
  /\ UNCHANGED <<pending, spawned, transitions, connFails, lifecycle, client, db, message>>

\* a stop() that leaves the flag as it is
Stop163Keeps(c) ==
  /\ ctl[c] = "stop_163"
  /\ ctl' = [ctl EXCEPT ![c] = "idle"]
  /\ ret' = [ret EXCEPT ![c] = "stopped"]
  /\ pending' = pending \cup Alive
  /\ g' = [g EXCEPT !.stopped = @ \/ m.pc # "idle"]
  /\ UNCHANGED <<running, thread, loop, log, spawned, transitions, connFails, client, db, m, hist, msgs>>

\* a stop() that stops the network loop and disconnects the client itself
Stop163Disconnects(c) ==
  /\ ctl[c] = "stop_163"
  /\ running' = FALSE
  /\ netloop' = FALSE
  /\ sock' = "none"
  /\ subscribed' = FALSE
  /\ ctl' = [ctl EXCEPT ![c] = "idle"]
  /\ ret' = [ret EXCEPT ![c] = "stopped"]
  /\ pending' = pending \cup Alive
  /\ g' = [g EXCEPT !.stopped = @ \/ m.pc # "idle"]
  /\ UNCHANGED <<thread, loop, log, spawned, transitions, connFails, connack, db, m, hist, msgs>>

\* line 163: self._running = False
Stop163(c) ==
  /\ ctl[c] = "stop_163"
  /\ running' = FALSE
  /\ ctl' = [ctl EXCEPT ![c] = "idle"]
  /\ ret' = [ret EXCEPT ![c] = "stopped"]
  /\ pending' = pending \cup Alive
  /\ g' = [g EXCEPT !.stopped = @ \/ m.pc # "idle"]
  /\ UNCHANGED <<thread, loop, log, spawned, transitions, connFails, client, db, m, hist, msgs>>

(***************************************************************************)
(* _loop, on its own thread, and the transport client it drives            *)
(***************************************************************************)
\* line 136: while self._running
LoopOuter(t) ==
  /\ loop[t] = "while_outer"
  /\ loop' = [loop EXCEPT ![t] = IF running THEN "connect" ELSE "dead"]
  /\ pending' = pending \ {t}
  /\ UNCHANGED <<running, thread, client, db, message, ctl, ret, log, spawned, transitions, connFails>>

\* line 138: client.connect succeeds: a new session, its CONNACK to come
LoopConnectOk(t) ==
  /\ loop[t] = "connect"
  /\ sock' = "connected"
  /\ connack' = TRUE
  /\ subscribed' = FALSE
  /\ loop' = [loop EXCEPT ![t] = "loop_start"]
  /\ UNCHANGED <<running, thread, netloop, db, message, callers>>

\* a _loop that gives up when client.connect raises
AfterConnectErrorFatal(t) == [loop EXCEPT ![t] = "dead"]

\* what _loop does when client.connect raises (lines 144-146)
AfterConnectError(t) == [loop EXCEPT ![t] = "backoff"]

\* line 138: client.connect raises; lines 144-145 catch it
LoopConnectFail(t) ==
  /\ loop[t] = "connect"
  /\ connFails < MaxConnFails
  /\ connFails' = connFails + 1
  /\ sock' = "none"
  /\ connack' = FALSE
  /\ subscribed' = FALSE
  /\ loop' = AfterConnectError(t)
  /\ UNCHANGED <<running, thread, netloop, db, message, ctl, ret, log, pending, spawned, transitions>>

\* line 146: time.sleep(5), then back to line 136
LoopBackoff(t) ==
  /\ loop[t] = "backoff"
  /\ loop' = [loop EXCEPT ![t] = "while_outer"]
  /\ UNCHANGED <<running, thread, client, db, message, callers>>

\* line 139: client.loop_start()
LoopStart(t) ==
  /\ loop[t] = "loop_start"
  /\ netloop' = TRUE
  /\ loop' = [loop EXCEPT ![t] = "while_inner"]
  /\ UNCHANGED <<running, thread, sock, connack, subscribed, db, message, callers>>

\* lines 140-141: while self._running: time.sleep(1)
LoopInner(t) ==
  /\ loop[t] = "while_inner"
  /\ loop' = [loop EXCEPT ![t] = IF running THEN "while_inner" ELSE "loop_stop"]
  /\ pending' = pending \ {t}
  /\ UNCHANGED <<running, thread, client, db, message, ctl, ret, log, spawned, transitions, connFails>>

\* line 142: client.loop_stop() joins the network thread, which ends after
\* the callback it is in
LoopStop(t) ==
  /\ loop[t] = "loop_stop"
  /\ m.pc = "idle"
  /\ netloop' = FALSE
  /\ loop' = [loop EXCEPT ![t] = "disconnect"]
  /\ UNCHANGED <<running, thread, sock, connack, subscribed, db, message, callers>>

\* line 143: client.disconnect(), then back to line 136
LoopDisconnect(t) ==
  /\ loop[t] = "disconnect"
  /\ sock' = "none"
  /\ connack' = FALSE
  /\ subscribed' = FALSE
  /\ loop' = [loop EXCEPT ![t] = "while_outer"]
  /\ UNCHANGED <<running, thread, netloop, db, message, callers>>

\* on_connect(client, userdata, flags, rc) with rc = 0: subscribe
OnConnect ==
  /\ netloop /\ connack /\ sock = "connected"
  /\ m.pc = "idle"
  /\ connack' = FALSE
  /\ subscribed' = TRUE
  /\ UNCHANGED <<sock, netloop, lifecycle, db, message, callers>>

\* on_connect with rc # 0: a message is printed, nothing is subscribed
OnConnectRefused ==
  /\ netloop /\ connack /\ sock = "connected"
  /\ m.pc = "idle"
  /\ connack' = FALSE
  /\ UNCHANGED <<sock, netloop, subscribed, lifecycle, db, message, callers>>

control(c) ==
  \/ Start150(c)
  \/ Start153(c)
  \/ Start154(c)
  \/ Start155(c)
  \/ Stop160(c)
  \/ Stop163(c)

loop_thread(t) ==
  \/ LoopOuter(t)
  \/ LoopConnectOk(t)
  \/ LoopConnectFail(t)
  \/ LoopBackoff(t)
  \/ LoopStart(t)
  \/ LoopInner(t)
  \/ LoopStop(t)
  \/ LoopDisconnect(t)

(***************************************************************************)
(* Specifications                                                          *)
(***************************************************************************)
\* the payloads delivered while start() and stop() calls race
ControlPayloads == {PayloadThree, NonJson}

\* The whole collector: two callers of start()/stop(), the loop threads, the
\* transport client and the message handler with the database reachable.
Next ==
  \/ \E c \in Callers : control(c)
  \/ \E t \in Threads : loop_thread(t)
  \/ OnConnect
  \/ OnConnectRefused
  \/ \E p \in ControlPayloads : Deliver(p)
  \/ Decode
  \/ DbConnectOk
  \/ FieldsDone
  \/ FieldSkip
  \/ FieldLookup
  \/ InsertMeasurement
  \/ InsertDev

Spec == Init /\ [][Next]_vars

\* The message handler under every payload and every failure of a statement,
\* on a collector that is started once, whose broker accepts the connection
\* and whose database accepts the connection.
NextMsg ==
  \/ log = <<>> /\ Start150(1)
  \/ Start153(1)
  \/ Start154(1)
  \/ Start155(1)
  \/ \E t \in Threads : LoopOuter(t) \/ LoopConnectOk(t) \/ LoopStart(t) \/ LoopInner(t)
  \/ OnConnect
  \/ \E p \in Payloads : Deliver(p)
  \/ Decode
  \/ DbConnectOk
  \/ FieldsDone
  \/ FieldSkip
  \/ FieldLookup
  \/ FieldLookupFail
  \/ InsertMeasurement
  \/ InsertMeasurementFail
  \/ InsertDev
  \/ InsertDevFail

SpecMsg == Init /\ [][NextMsg]_vars

\* The message handler when connecting to the database fails any number of
\* times, on a collector that is started once.
NextRetry ==
  \/ log = <<>> /\ Start150(1)
  \/ Start153(1)
  \/ Start154(1)
  \/ Start155(1)
  \/ \E t \in Threads : LoopOuter(t) \/ LoopConnectOk(t) \/ LoopStart(t) \/ LoopInner(t)
  \/ OnConnect
  \/ \E p \in ControlPayloads : Deliver(p)
  \/ Decode
  \/ DbConnectOk
  \/ DbConnectFail
  \/ RetryExhausted
  \/ FieldsDone
  \/ FieldSkip
  \/ FieldLookup
  \/ InsertMeasurement
  \/ InsertDev

SpecRetry == Init /\ [][NextRetry]_vars

\* The same, where the runtime may finalise the connections that were replaced.
NextConn ==
  \/ NextRetry
  \/ Collect

SpecConn == Init /\ [][NextConn]_vars

\* start() and stop() called one after the other by one caller, the loop
\* threads and the transport client.
NextSeq ==
  \/ control(1)
  \/ \E t \in Threads : loop_thread(t)
  \/ OnConnect
  \/ OnConnectRefused

SpecSeq == Init /\ [][NextSeq]_vars

\* start() and stop() called one after the other by one caller while
\* messages are delivered and handled, the broker and the database reachable.
NextStop ==
  \/ control(1)
  \/ \E t \in Threads : LoopOuter(t)
  \/ \E t \in Threads : LoopConnectOk(t)
  \/ \E t \in Threads : LoopStart(t)
  \/ \E t \in Threads : LoopInner(t)
  \/ \E t \in Threads : LoopStop(t)
  \/ \E t \in Threads : LoopDisconnect(t)
  \/ OnConnect
  \/ \E p \in ControlPayloads : Deliver(p)
  \/ Decode
  \/ DbConnectOk
  \/ FieldsDone
  \/ FieldSkip
  \/ FieldLookup
  \/ InsertMeasurement
  \/ InsertDev

SpecStop == Init /\ [][NextStop]_vars

\* A collector started once and then stopped, with messages handled; the
\* database may refuse connections and fail a statement during the first
\* message.
NextFrame ==
  \/ log = <<>> /\ Start150(1)
  \/ Start153(1)
  \/ Start154(1)
  \/ Start155(1)
  \/ Stop160(1)
  \/ Stop163(1)
  \/ \E t \in Threads : LoopOuter(t)
  \/ \E t \in Threads : LoopConnectOk(t)
  \/ \E t \in Threads : LoopStart(t)
  \/ \E t \in Threads : LoopInner(t)
  \/ \E t \in Threads : LoopStop(t)
  \/ \E t \in Threads : LoopDisconnect(t)
  \/ OnConnect
  \/ \E p \in ControlPayloads : Deliver(p)
  \/ Decode
  \/ DbConnectOk
  \/ FieldsDone
  \/ FieldSkip
  \/ FieldLookup
  \/ InsertMeasurement
  \/ InsertDev
  \/ msgs = 1 /\ DbConnectFail
  \/ msgs = 1 /\ RetryExhausted
  \/ msgs = 1 /\ FieldLookupFail
  \/ msgs = 1 /\ InsertMeasurementFail
  \/ msgs = 1 /\ InsertDevFail

SpecFrame == Init /\ [][NextFrame]_vars

\* Start() and stop() without messages,
\* where every loop thread that can take a step eventually takes one.
SpecLive == SpecSeq /\ \A t \in Threads : WF_vars(loop_thread(t))

(***************************************************************************)
(* Properties of on_message (SpecMsg, SpecRetry)                           *)
(***************************************************************************)
\* the rows of measurement appended while message h was handled
Segment(h) == SubSeq(measurement, h.start + 1, h.end)

\* a JSON number
JsonNumber(val) == val.t \in {"int", "float"}

\* the device id under which the fields of payload p are resolved
DeviceOf(p) == IntOf(Get(p.items, "device", I(0)))

\* the fields of p that are candidate measurements: not reserved, a number
Candidates(p) ==
  {i \in 1..Len(p.items) : p.items[i].k \notin ReservedKeys /\ JsonNumber(p.items[i].val)}

\* the channel rows that field i of p resolves to
Resolved(p, i) == SelectChannel(channel, DeviceOf(p), p.items[i].k)

\* the positions of the rows of a sequence that carry channel_id c
RowsOf(rows, c) == {k \in 1..Len(rows) : rows[k].channel_id = c}

\* the payload carries a timestamp
HasTimestamp(p) == Truthy(Get(p.items, "timestamp", None))

Keys(seq) == {seq[k] : k \in 1..Len(seq)}

\* C1: every delivery of a JSON object that the database lets through (the
\* connection and every statement succeed) appends, for each numeric field
\* that resolves to a channel, exactly one measurement row with the resolved
\* channel_id, the field's value and the payload's timestamp; this holds of
\* each delivery on its own, so a payload delivered again is written again.
C1_OneRowPerResolvedField ==
  \A n \in 1..Len(hist) :
    LET h == hist[n]
        p == h.payload
    IN h.outcome = "ok" =>
         \A i \in Candidates(p) : \A r \in Resolved(p, i) :
           /\ Cardinality(RowsOf(Segment(h), r.channel_id)) = 1
           /\ \A k \in RowsOf(Segment(h), r.channel_id) :
                /\ Segment(h)[k].value = ToFloat(p.items[i].val)
                /\ HasTimestamp(p) => Segment(h)[k].ts = Get(p.items, "timestamp", None)

\* C1 witness: the same payload delivered twice, both deliveries written
C1_Witness ==
  /\ Len(hist) = 2
  /\ hist[1].payload = PayloadThree /\ hist[2].payload = PayloadThree
  /\ hist[1].outcome = "ok" /\ hist[2].outcome = "ok"
  /\ Len(Segment(hist[2])) = 2
  /\ Segment(hist[1]) = Segment(hist[2])
  /\ Len(measurement) = 4

\* C2: in a message that no database error cuts short, a field whose lookup
\* returns no row gets no measurement, and every candidate field of the
\* payload is still looked up and, if it resolves, written.
C2_MissingChannelSkipsOnlyThatField ==
  \A n \in 1..Len(hist) :
    LET h == hist[n]
        p == h.payload
    IN (h.outcome = "ok" /\ \E i \in Candidates(p) : Resolved(p, i) = {}) =>
         /\ \A i \in Candidates(p) :
              /\ p.items[i].k \in Keys(h.looked)
              /\ Resolved(p, i) = {} => p.items[i].k \notin Keys(h.written)
              /\ Resolved(p, i) # {} => p.items[i].k \in Keys(h.written)
         /\ Len(Segment(h)) = Len(h.written)

\* C2 witness: an unresolved field before a field that was written
C2_Witness ==
  \E n \in 1..Len(hist) :
    LET h == hist[n]
        p == h.payload
    IN /\ h.outcome = "ok"
       /\ \E i, j \in Candidates(p) :
            /\ i < j
            /\ Resolved(p, i) = {}
            /\ Resolved(p, j) # {}
            /\ p.items[j].k \in Keys(h.written)
            /\ \E k \in 1..Len(Segment(h)) : Segment(h)[k].value = ToFloat(p.items[j].val)

\* C3: a payload that is not JSON writes no row, makes no connection attempt
\* and no query, and the handler returns normally.
C3_NonJsonDropped ==
  /\ (m.pc # "idle" /\ m.payload.kind = "nonjson") =>
       /\ m.pc = "decode"
       /\ g.attempts = 0 /\ g.looked = <<>> /\ Len(measurement) = g.start
  /\ \A n \in 1..Len(hist) :
       hist[n].payload.kind = "nonjson" =>
         /\ hist[n].outcome = "caught"
         /\ hist[n].attempts = 0
         /\ hist[n].looked = <<>>
         /\ hist[n].end = hist[n].start

\* C3 witness: a non-JSON payload handled after a message that was written
C3_Witness ==
  /\ Len(hist) = 2
  /\ hist[1].outcome = "ok" /\ Len(Segment(hist[1])) > 0
  /\ hist[2].payload = NonJson
  /\ m.pc = "idle"

\* C4: when the connection succeeds on attempt k <= 5 after k-1 failures,
\* exactly k attempts are made, none after the success, and the message is
\* processed: its resolvable fields are written.
C4_RetryUntilSuccess ==
  /\ m.pc \in {"fields", "insert_measurement", "insert_dev"} =>
       g.attempts = g.fails + 1 /\ g.attempts <= 5
  /\ \A n \in 1..Len(hist) :
       LET h == hist[n]
           p == h.payload
       IN (h.failed \notin {"decode", "extract"} /\ h.fails < 5) =>
            /\ h.attempts = h.fails + 1
            /\ h.outcome # "skipped"
            /\ h.outcome = "ok" =>
                 \A i \in Candidates(p) :
                   Resolved(p, i) # {} => p.items[i].k \in Keys(h.written)

\* C4 witness: four failures, then success, and the message written
C4_Witness ==
  \E n \in 1..Len(hist) :
    /\ hist[n].fails = 4 /\ hist[n].attempts = 5
    /\ hist[n].outcome = "ok"
    /\ Len(Segment(hist[n])) = 2

\* C5: when all 5 attempts fail, exactly 5 are made, the message is dropped
\* without lookup or write, the handler returns, the collector stays Running
\* and subscribed, and the next message has 5 attempts of its own.
C5_RetryExhaustedDrops ==
  /\ g.attempts <= 5
  /\ \A n \in 1..Len(hist) :
       LET h == hist[n]
       IN /\ h.fails = 5 <=> h.outcome = "skipped"
          /\ h.outcome = "skipped" =>
               /\ h.attempts = 5
               /\ h.looked = <<>> /\ h.written = <<>>
               /\ h.end = h.start
               /\ (n = Len(hist) /\ m.pc = "idle") =>
                    is_running /\ netloop /\ subscribed /\ sock = "connected"

\* C5 witness: a message dropped after 5 failures, the next one written on
\* its own fifth attempt
C5_Witness ==
  /\ Len(hist) = 2
  /\ hist[1].outcome = "skipped"
  /\ hist[2].outcome = "ok" /\ hist[2].fails = 4
  /\ Len(Segment(hist[2])) > 0

(***************************************************************************)
(* Properties of start(), stop() and _loop                                 *)
(***************************************************************************)
\* the step is a call of start() / of stop()
CallOf(name) == Len(log') = Len(log) + 1 /\ log'[Len(log')] = name

AllIdle == \A c \in Callers : ctl[c] = "idle"

\* C6: a start() made while the collector is Running returns at once: no
\* thread is created or started, the stored thread and the flag stay; after
\* start(); start() on a new collector exactly one loop thread is active.
C6_SecondStartIsNoOp ==
  /\ [][(CallOf("start") /\ running) =>
          /\ UNCHANGED <<running, thread, loop, spawned>>
          /\ ctl' = ctl]_vars
  /\ [](log = <<"start", "start">> /\ AllIdle =>
          /\ is_running
          /\ spawned = 1
          /\ thread = 1
          /\ Alive = {1})

\* C6 witness: start() twice, the one loop connected and idle
C6_Witness ==
  /\ log = <<"start", "start">> /\ AllIdle
  /\ ret[1] = "already"
  /\ loop[1] = "while_inner" /\ subscribed

\* C7: called one after the other, start() and stop() drive is_running() as
\* Stopped -start-> Running -stop-> Stopped: false at first, true after each
\* start(), false after each stop(); stop() while Stopped changes nothing.
C7_TwoStateMachine ==
  /\ [](AllIdle => (is_running <=> (log # <<>> /\ log[Len(log)] = "start")))
  /\ [][(CallOf("stop") /\ ~running) =>
          /\ UNCHANGED <<running, thread, loop, sock, netloop, connack, subscribed>>
          /\ ctl' = ctl]_vars

\* C7 witness: stop() on a collector that stop() has stopped
C7_Witness ==
  /\ log = <<"start", "stop", "stop">> /\ AllIdle
  /\ ret[1] = "not_running"
  /\ ~is_running

\* C8: however the steps of concurrent start()/stop() calls interleave, at
\* most one loop thread is started per change of the flag from False to True
\* and no call fails.
C8_OneThreadPerTransition ==
  /\ spawned <= transitions
  /\ \A c \in Callers : ret[c] # "raised"

\* C9: a failed broker connect never ends the loop: a loop thread ends only
\* on reading a False flag, and a thread that is connecting or backing off
\* reaches the connected idle phase unless the flag is cleared.
C9_ConnectRetriedForever ==
  /\ [][\A t \in Threads : (loop[t] # "dead" /\ loop'[t] = "dead") => ~running]_vars
  /\ [][\A t \in Threads : (loop[t] = "connect" /\ loop'[t] # loop[t]) =>
          loop'[t] \in {"loop_start", "backoff"}]_vars
  /\ [][\A t \in Threads : (loop[t] = "backoff" /\ loop'[t] # loop[t]) =>
          loop'[t] = "while_outer"]_vars
  /\ [][\A t \in Threads : (loop[t] = "while_outer" /\ loop'[t] # loop[t] /\ running) =>
          loop'[t] = "connect"]_vars
  /\ \A t \in Threads :
       (loop[t] \in {"connect", "backoff"}) ~> (loop[t] = "while_inner" \/ ~running)

\* C9 witness: connected and idle after every allowed connect failure
C9_Witness ==
  /\ connFails = MaxConnFails
  /\ running /\ spawned = 1
  /\ loop[1] = "while_inner" /\ sock = "connected"

\* C10: the first poll a loop thread makes after a stop() sees the cleared
\* flag and leaves the loop (towards loop_stop/disconnect, or out of _loop).
C10_StopSeenAtNextPoll ==
  [][\A t \in Threads :
       (t \in pending /\ t \notin pending') => loop'[t] \in {"loop_stop", "dead"}]_vars

(***************************************************************************)
(* Properties of the handler and the lifecycle together                    *)
(***************************************************************************)
\* the resolvable candidate fields of payload p were all written in message h
AllWritten(h) ==
  \A i \in Candidates(h.payload) :
    Resolved(h.payload, i) # {} => h.payload.items[i].k \in Keys(h.written)

\* C11: a stop() made while a message is being handled only clears the flag:
\* the handler and the store are left as they are, the network loop is
\* stopped only when the handler has returned, a loop thread disconnects
\* only after that, and the message is written as it is without a stop().
C11_StopNeverInterrupts ==
  /\ [][(running /\ ~running') => UNCHANGED <<m, hist, db, client>>]_vars
  /\ [][(netloop /\ ~netloop') => m.pc = "idle"]_vars
  /\ [][\A t \in Threads : (loop[t] # "disconnect" /\ loop'[t] = "disconnect") =>
          (loop[t] = "loop_stop" /\ m.pc = "idle" /\ ~netloop')]_vars
  /\ [](\A n \in 1..Len(hist) :
          (hist[n].stopped /\ hist[n].payload.kind = "object") =>
             /\ hist[n].outcome = "ok"
             /\ AllWritten(hist[n])
             /\ Len(Segment(hist[n])) = Len(hist[n].written))

\* C11 witness: a message written in full although stop() came in its middle,
\* and the session released after it
C11_Witness ==
  /\ Len(hist) = 1
  /\ hist[1].stopped /\ hist[1].outcome = "ok"
  /\ Len(Segment(hist[1])) = 2
  /\ ~running /\ ~netloop /\ sock = "none" /\ Alive = {}

\* the statement that failed in message h, if any, was none of the database's
DbLetThrough(h) == h.failed \notin {"connect", "select", "insert_measurement", "insert_dev"}

\* C12: a JSON object whose device is absent or is not a number is not
\* rejected: unless the database fails, the message is handled to its end
\* and each of its numeric fields that has a channel under device 0 gets
\* exactly one measurement row with that channel.
C12_BadDeviceDegradesToZero ==
  \A n \in 1..Len(hist) :
    LET h == hist[n]
        p == h.payload
    IN (p.kind = "object" /\ ~JsonNumber(Get(p.items, "device", None)) /\ DbLetThrough(h)) =>
         /\ h.outcome = "ok"
         /\ \A i \in Candidates(p) : \A r \in SelectChannel(channel, 0, p.items[i].k) :
              Cardinality(RowsOf(Segment(h), r.channel_id)) = 1

\* C13: a field is looked up or written only if its key is not reserved and
\* its value is a JSON number; strings, booleans and nulls are passed over.
C13_OnlyNumericNonReserved ==
  \A n \in 1..Len(hist) :
    LET h == hist[n]
        p == h.payload
    IN \A key \in Keys(h.looked) \cup Keys(h.written) :
         \E i \in Candidates(p) : p.items[i].k = key

\* the channel ids the store holds for device d and field key
ChannelIds(d, key) == {r.channel_id : r \in SelectChannel(channel, d, key)}

\* C14: every measurement row belongs to a message, and its channel_id is one
\* the channel table holds for that message's device id and the field it was
\* written for; this holds of the message being handled as well.
C14_ChannelIdFromLookup ==
  /\ \A k \in 1..Len(measurement) :
       \/ \E n \in 1..Len(hist) : hist[n].start < k /\ k <= hist[n].end
       \/ m.pc # "idle" /\ g.start < k
  /\ \A n \in 1..Len(hist) :
       LET h == hist[n]
       IN /\ Len(Segment(h)) = Len(h.written)
          /\ \A k \in 1..Len(h.written) :
               Segment(h)[k].channel_id \in ChannelIds(DeviceOf(h.payload), h.written[k])
  /\ m.pc # "idle" =>
       /\ Len(measurement) - g.start = Len(g.written)
       /\ \A k \in 1..Len(g.written) :
            measurement[g.start + k].channel_id \in ChannelIds(m.device_id, g.written[k])

\* C14 witness: a field of device "2" written with the channel of device 2
C14_Witness ==
  /\ Len(hist) = 1
  /\ hist[1].payload = PayloadStrDevice /\ hist[1].outcome = "ok"
  /\ Len(measurement) = 1
  /\ measurement[1].channel_id = 5

\* a statement of message h raised after the connection was made
StatementFailed(h) == h.failed \in {"select", "insert_measurement", "insert_dev"}

\* the position of key in payload p
IndexOf(p, key) == CHOOSE i \in 1..Len(p.items) : p.items[i].k = key

\* C15: when a SELECT or INSERT raises for a field, the handler returns
\* normally; the fields before it that resolved keep their measurement rows,
\* the failing statement leaves no row (a failing INSERT INTO dev leaves the
\* field's measurement row, committed on its own, and no dev row), and no
\* field after it is looked up or written.
C15_StatementFailureAbandonsRest ==
  /\ \A n \in 1..Len(hist) :
       LET h == hist[n]
           p == h.payload
       IN StatementFailed(h) =>
            /\ h.outcome = "caught"
            /\ h.at \in 1..Len(p.items)
            /\ ~Skips(p.items[h.at])
            /\ Len(Segment(h)) = Len(h.written)
            /\ \A i \in 1..(h.at - 1) :
                 (~Skips(p.items[i]) /\ SelectChannel(channel, DeviceOf(p), p.items[i].k) # {}) =>
                    p.items[i].k \in Keys(h.written)
            /\ \A key \in Keys(h.looked) \cup Keys(h.written) : IndexOf(p, key) <= h.at
            /\ (p.items[h.at].k \in Keys(h.written)) <=> (h.failed = "insert_dev")
  /\ m.pc = "idle" =>
       Len(dev) + Cardinality({n \in 1..Len(hist) : hist[n].failed = "insert_dev"}) = Len(measurement)

\* C15 witness: the second field's INSERT raised; the first field's row is
\* kept, the field after it was not looked up
C15_Witness ==
  /\ Len(hist) = 1
  /\ hist[1].payload = PayloadThree
  /\ hist[1].failed = "insert_measurement" /\ hist[1].at = 3
  /\ hist[1].written = <<"temp">>
  /\ Len(measurement) = 1 /\ Len(dev) = 1
  /\ "rpm" \notin Keys(hist[1].looked)
  /\ m.pc = "idle"

\* a caller executes one of the assignments of start() or stop()
StartOrStopAssigns ==
  \E c \in Callers : ctl[c] \in {"start_153", "start_154", "stop_163"} /\ ctl'[c] # ctl[c]

\* C16: the run flag and the thread attribute change only in a step of
\* start() or stop(); a message that ends, however it ends, and a
\* connection attempt of the retry loop leave the flag, the thread attribute,
\* every loop thread and the client as they are.
C16_RunStateFrame ==
  /\ [][(running' # running \/ thread' # thread) => StartOrStopAssigns]_vars
  /\ [][(hist' # hist \/ m' # m \/ opened' # opened) =>
          UNCHANGED <<running, thread, loop, client>>]_vars

\* C16 witness: a message ended in a failed INSERT after failed connection
\* attempts, the next one was written, the collector Running all along
C16_Witness ==
  /\ Len(hist) = 2
  /\ hist[1].failed = "insert_dev" /\ hist[1].fails = 2
  /\ hist[2].outcome = "ok" /\ Len(Segment(hist[2])) = 2
  /\ running /\ Cardinality(Alive) = 1 /\ netloop /\ subscribed

\* C17: a step of the collector changes the store only by appending one row
\* to measurement: channel is left as it is, the rows measurement holds stay
\* as they are, and no other table (dev) receives a row.
C17_OnlyMeasurementAppended ==
  [][/\ channel' = channel
     /\ \/ measurement' = measurement
        \/ \E row \in {measurement'[Len(measurement')]} : measurement' = Append(measurement, row)
     /\ dev' = dev]_vars

\* C18 as stated: every measurement row has quality Good if its value is
\* greater than 0 and Uncertain otherwise.
C18_QualityBySignOfValue ==
  \A k \in 1..Len(measurement) :
    measurement[k].quality = (IF measurement[k].value > 0 THEN "Good" ELSE "Uncertain")

\* C18 amended: every row written by on_message, to measurement and to dev,
\* has quality Good, whatever the sign of its value.
C18_QualityAlwaysGood ==
  /\ \A k \in 1..Len(measurement) : measurement[k].quality = "Good"
  /\ \A k \in 1..Len(dev) : dev[k].quality = "Good"

\* C18 witness: a negative value was written to both tables, as Good
C18_Witness ==
  /\ \E k \in 1..Len(measurement) :
       measurement[k].value < 0 /\ measurement[k].quality = "Good"
  /\ \E k \in 1..Len(dev) : dev[k].value < 0 /\ dev[k].quality = "Good"
  /\ m.pc = "idle"

\* C19: with start() and stop() called one after the other, once every loop
\* thread that was alive at a stop() has polled the flag again, at most one
\* loop thread is alive.
C19_RestartKeepsSingleLoop ==
  pending = {} => Cardinality(Alive) <= 1

\* C20: every message that appended a measurement row, finished or being
\* handled, was delivered while is_running() was true.
C20_WrittenOnlyWhileRunning ==
  /\ \A n \in 1..Len(hist) : Len(Segment(hist[n])) > 0 => hist[n].running0
  /\ (m.pc # "idle" /\ Len(measurement) > g.start) => g.running0

\* C21: the collector never has more than one database connection that was
\* opened and not closed.
C21_AtMostOneOpenConnection ==
  unclosed <= 1

=============================================================================
